---- MODULE Spec2Model ----
(***************************************************************************)
(* The observation aggregation and report-prompt pipeline of the           *)
(* siskon-safety-app Netlify function "analyze", in its three complete     *)
(* revisions:                                                              *)
(*   "analyze"  - src/netlify/functions/analyze.js                         *)
(*   "part_001" - src/unnamed/part_001  (risk-ordered trimming, cap 140)   *)
(*   "part_002" - src/unnamed/part_002  (critical + repetitive, cap 60)    *)
(* One invocation of exports.handler is one behaviour: the request is      *)
(* fixed in Init and the handler runs step by step until it responds.      *)
(***************************************************************************)
EXTENDS Integers, Sequences, FiniteSets

(***************************************************************************)
(* JavaScript values of an observation's fields.  A field is absent        *)
(* (undefined), a string, or a number; a number carries the text that      *)
(* String(n) gives for it.                                                 *)
(***************************************************************************)
Undefined == [tag |-> "undefined", s |-> ""]
Str(x) == [tag |-> "string", s |-> x]
Num(x) == [tag |-> "number", s |-> x]

\* JavaScript truthiness: undefined, "" and 0 are falsy.
Truthy(v) ==
    \/ v.tag = "string" /\ v.s # ""
    \/ v.tag = "number" /\ v.s # "0"

\* a || b
OrElse(a, b) == IF Truthy(a) THEN a ELSE b

\* String(v) of a string or a number.
String(v) == v.s

\* String.prototype.toUpperCase over the strings of the model.
ToUpperCase(x) ==
    CASE x = "high" -> "HIGH"
      [] x = "High" -> "HIGH"
      [] x = "medium" -> "MEDIUM"
      [] x = "low" -> "LOW"
      [] x = "critical" -> "CRITICAL"
      [] OTHER -> x

\* String.prototype.trim over the strings of the model.
Trim(x) ==
    CASE x = " Fire" -> "Fire"
      [] x = "Slip " -> "Slip"
      [] OTHER -> x

(***************************************************************************)
(* Observations.  An element of the data list is an object or null.        *)
(***************************************************************************)
Obs(r, c, l, d) ==
    [kind |-> "object", risk |-> r, category |-> c, location |-> l, date |-> d]

NullObs ==
    [kind |-> "null", risk |-> Undefined, category |-> Undefined,
     location |-> Undefined, date |-> Undefined]

IsNull(o) == o.kind = "null"

(***************************************************************************)
(* Array helpers.                                                          *)
(***************************************************************************)
Min(a, b) == IF a < b THEN a ELSE b

\* Array.prototype.slice(from, to) with 0 <= from <= to (0-based, to excluded).
Slice(arr, from, to) == SubSeq(arr, from + 1, Min(to, Len(arr)))

\* The positions of an array, in order.
Indices(arr) == [i \in 1..Len(arr) |-> i]

(***************************************************************************)
(* Array.prototype.sort(compare): a stable sort.  The comparators of the   *)
(* handlers are named by kind; Compare(kind, a, b) < 0 puts a before b,    *)
(* and elements the comparator ranks equal keep their order.  Every        *)
(* comparator of the model is a consistent ordering of the values sorted,  *)
(* so the sorted array is given by the rank of each element.  A comparator *)
(* result of NaN counts as 0; ECMAScript leaves the order to the           *)
(* implementation when the comparator is not a consistent ordering, and    *)
(* the requests of the model hold no such list (see ConsistentDates).      *)
(***************************************************************************)
IndexValue(k) ==
    CASE k = "0" -> 0
      [] k = "5" -> 5
      [] k = "7" -> 7
      [] k = "10" -> 10
      [] OTHER -> 0

Compare(kind, a, b) ==
    CASE kind = "countDesc" -> b[2] - a[2]
      [] kind = "indexAsc" -> IndexValue(a[1]) - IndexValue(b[1])
      [] kind = "lengthDesc" -> Len(b) - Len(a)
      [] kind = "dateDesc" ->
            IF a[2].nan \/ b[2].nan THEN 0 ELSE b[2].t - a[2].t
      [] OTHER -> 0

\* a is placed before b: the comparator says so, or it ranks them equal and
\* a comes first in the array.
SortsBefore(arr, kind, i, j) ==
    \/ Compare(kind, arr[i], arr[j]) < 0
    \/ Compare(kind, arr[i], arr[j]) = 0 /\ i < j

\* The position the element at i is moved to.
SortRank(arr, kind, i) ==
    1 + Cardinality({j \in 1..Len(arr) : j # i /\ SortsBefore(arr, kind, j, i)})

StableSort(arr, kind) ==
    LET ranked == {<<SortRank(arr, kind, i), i>> : i \in 1..Len(arr)}
    IN  [p \in 1..Len(arr) |-> arr[(CHOOSE r \in ranked : r[1] = p)[2]]]

(***************************************************************************)
(* Plain objects used as maps.  The model keeps an object as the sequence  *)
(* of its <<key, value>> properties in creation order.  Object.entries     *)
(* lists the keys that are array indices first, in ascending numeric       *)
(* order, and then the other string keys in creation order.                *)
(***************************************************************************)
IsArrayIndex(k) == k \in {"0", "5", "7", "10"}

HasKey(obj, k) == \E i \in 1..Len(obj) : obj[i][1] = k

\* The position of the property k of obj.
KeyIndex(obj, k) == CHOOSE i \in 1..Len(obj) : obj[i][1] = k

\* obj[k], for a property obj has
Get(obj, k) == obj[KeyIndex(obj, k)][2]

\* obj[k] = (obj[k] || 0) + 1
Increment(obj, k) ==
    IF HasKey(obj, k)
    THEN [obj EXCEPT ![KeyIndex(obj, k)] = <<k, Get(obj, k) + 1>>]
    ELSE Append(obj, <<k, 1>>)

EntryIsIndex(e) == IsArrayIndex(e[1])

EntryIsName(e) == ~IsArrayIndex(e[1])

ObjectEntries(obj) ==
    StableSort(SelectSeq(obj, EntryIsIndex), "indexAsc")
        \o SelectSeq(obj, EntryIsName)

(***************************************************************************)
(* Normalisation of one observation's fields.                              *)
(***************************************************************************)
\* function normRisk(r) { return String(r || "MEDIUM").toUpperCase(); }
normRisk(r) == ToUpperCase(String(OrElse(r, Str("MEDIUM"))))

\* The property key under which an observation's category is counted:
\* (obs.category || "Unknown").trim() in analyze.js, obs.category || "Unknown"
\* in the two other revisions.
categoryKey(v, o) ==
    IF v = "analyze"
    THEN Trim(String(OrElse(o.category, Str("Unknown"))))
    ELSE String(OrElse(o.category, Str("Unknown")))

\* The forEach of the statistics pass throws a TypeError on a null element
\* (obs.risk) and, in analyze.js, on a truthy category that is not a string
\* (.trim is not a function).
statisticsThrows(v, d) ==
    \E i \in 1..Len(d) :
        \/ IsNull(d[i])
        \/ v = "analyze" /\ Truthy(d[i].category) /\ d[i].category.tag # "string"

(***************************************************************************)
(* Limits of the samplers.                                                 *)
(***************************************************************************)
MAX_OBS_FOR_PROMPT == 140

MAX_EXAMPLES == 60

HIGH_LIMIT == 30

REPEAT_THRESHOLD == 3

PER_CLUSTER == 3

SMALL_SET == 10

EXTRAS_LIMIT == 10

TOP_CATEGORIES == 5

CanonicalRisks == {"HIGH", "MEDIUM", "LOW"}

(***************************************************************************)
(* The bodies of the handlers' loops: the accumulator after one pass of    *)
(* the body over one element.                                              *)
(***************************************************************************)
\* Mutant: an observation is counted only in a bucket that exists already.
riskCountStep_existingOnly(acc, o) ==
    IF HasKey(acc, normRisk(o.risk)) THEN Increment(acc, normRisk(o.risk)) ELSE acc

\* riskCount[risk] = (riskCount[risk] || 0) + 1
riskCountStep(acc, o) == Increment(acc, normRisk(o.risk))

\* if (obs.location) locations.add(obs.location)
locationsStep(acc, o) ==
    IF Truthy(o.location) THEN acc \cup {o.location} ELSE acc

\* const key = `${cat}|${loc}`
patternKey(o) ==
    String(OrElse(o.category, Str("Unknown"))) \o "|"
        \o String(OrElse(o.location, Str("Unknown location")))

\* if (!patternMap[key]) patternMap[key] = []; patternMap[key].push(obs)
PushTo(map, k, i) ==
    IF HasKey(map, k)
    THEN [map EXCEPT ![KeyIndex(map, k)] = <<k, Append(Get(map, k), i)>>]
    ELSE Append(map, <<k, <<i>> >>)

\* if (trimmed.length >= MAX_OBS_FOR_PROMPT) return; trimmed.push(arr[i])
\* (once full, trimmed stays full: the return ends a loop that would add nothing)
takeFromStep(trimmed, x) ==
    IF Len(trimmed) >= MAX_OBS_FOR_PROMPT THEN trimmed ELSE Append(trimmed, x)

\* if (exampleObs.length < MAX_EXAMPLES) exampleObs.push(obs)
pushStep(exampleObs, x) ==
    IF Len(exampleObs) < MAX_EXAMPLES THEN Append(exampleObs, x) ELSE exampleObs

\* for (let i = 0; i < cluster.length && i < 3; i++) { if (full) break; push }
RECURSIVE takeFromCluster(_, _, _)
takeFromCluster(exampleObs, cluster, i) ==
    IF ~(i < Len(cluster) /\ i < PER_CLUSTER) THEN exampleObs
    ELSE IF Len(exampleObs) >= MAX_EXAMPLES THEN exampleObs
    ELSE takeFromCluster(Append(exampleObs, cluster[i + 1]), cluster, i + 1)

\* Mutant: the inner loop starts at the second member of the cluster.
clusterStep_fromSecond(exampleObs, cluster) ==
    IF Len(exampleObs) >= MAX_EXAMPLES THEN exampleObs
    ELSE takeFromCluster(exampleObs, cluster, 1)

\* if (exampleObs.length >= MAX_EXAMPLES) break; take from the cluster
\* (once full, exampleObs stays full: the break ends a loop that would add nothing)
clusterStep(exampleObs, cluster) ==
    IF Len(exampleObs) >= MAX_EXAMPLES THEN exampleObs
    ELSE takeFromCluster(exampleObs, cluster, 0)

LoopBody(kind, ctx, acc, x) ==
    CASE kind = "riskCount" -> riskCountStep(acc, x)
      [] kind = "categories" -> Increment(acc, categoryKey(ctx, x))
      [] kind = "locations" -> locationsStep(acc, x)
      [] kind = "patternMap" -> PushTo(acc, patternKey(ctx[x]), x)
      [] kind = "takeFrom" -> takeFromStep(acc, x)
      [] kind = "pushWhileRoom" -> pushStep(acc, x)
      [] kind = "clusterExamples" -> clusterStep(acc, x)

\* arr.forEach / for (...) over arr[lo..hi] in order, from the accumulator acc.
\* The range is walked in halves: the accumulator after the first half is
\* computed (the comparison makes TLC evaluate it there), then the second half
\* is walked from it.
RECURSIVE ForEach(_, _, _, _, _, _)
ForEach(kind, arr, ctx, lo, hi, acc) ==
    IF lo > hi THEN acc
    ELSE IF lo = hi THEN LoopBody(kind, ctx, acc, arr[lo])
    ELSE LET mid == (lo + hi) \div 2
             first == ForEach(kind, arr, ctx, lo, mid, acc)
         IN  IF first = first
             THEN ForEach(kind, arr, ctx, mid + 1, hi, first)
             ELSE first

(***************************************************************************)
(* Statistics on ALL observations.                                         *)
(***************************************************************************)
\* const riskCount = { HIGH: 0, MEDIUM: 0, LOW: 0 }; data.forEach(...)
riskCount(d) ==
    ForEach("riskCount", d, "", 1, Len(d),
            <<(<<"HIGH", 0>>), (<<"MEDIUM", 0>>), (<<"LOW", 0>>)>>)

\* const categories = {}; data.forEach(...)
categories(v, d) == ForEach("categories", d, v, 1, Len(d), <<>>)

\* const locations = new Set(); data.forEach(...)
locations(d) == ForEach("locations", d, "", 1, Len(d), {})

\* Mutant: the entries are not sorted before the first five are taken.
topCategories_unsorted(v, d) ==
    Slice(ObjectEntries(categories(v, d)), 0, TOP_CATEGORIES)

\* Object.entries(categories).sort((a, b) => b[1] - a[1]).slice(0, 5)
topCategories(v, d) ==
    Slice(StableSort(ObjectEntries(categories(v, d)), "countDesc"),
          0, TOP_CATEGORIES)

(***************************************************************************)
(* part_001: the trimmed list for the prompt, HIGH first, then MEDIUM,     *)
(* then LOW, as positions of data.                                         *)
(***************************************************************************)
RiskIs(d, level) == SelectSeq(Indices(d), LAMBDA i : normRisk(d[i].risk) = level)

RiskIsNot(d, level) == SelectSeq(Indices(d), LAMBDA i : normRisk(d[i].risk) # level)

\* function takeFrom(arr) { for (...) { if (full) return; trimmed.push(arr[i]) } }
takeFrom(trimmed, arr) == ForEach("takeFrom", arr, "", 1, Len(arr), trimmed)

trimmedOf(d) ==
    takeFrom(takeFrom(takeFrom(<<>>, RiskIs(d, "HIGH")), RiskIs(d, "MEDIUM")),
             RiskIs(d, "LOW"))

\* const promptData = trimmed.length ? trimmed : data;
promptData(d) == IF Len(trimmedOf(d)) # 0 THEN trimmedOf(d) ELSE Indices(d)

(***************************************************************************)
(* part_002: repeating patterns (category + location).                     *)
(***************************************************************************)
\* const patternMap = {}; data.forEach(...)
patternMap(d) == ForEach("patternMap", Indices(d), d, 1, Len(d), <<>>)

\* Object.values(patternMap): every key holds a "|", so none is an array index
\* and the values come in creation order.
ObjectValues(map) == [j \in 1..Len(map) |-> map[j][2]]

\* Mutant: the qualifying clusters are left in creation order.
repeatingClusters_unsorted(d) ==
    SelectSeq(ObjectValues(patternMap(d)), LAMBDA arr : Len(arr) >= REPEAT_THRESHOLD)

\* .filter((arr) => arr.length >= 3).sort((a, b) => b.length - a.length)
repeatingClusters(d) ==
    StableSort(SelectSeq(ObjectValues(patternMap(d)),
                         LAMBDA arr : Len(arr) >= REPEAT_THRESHOLD),
               "lengthDesc")

(***************************************************************************)
(* part_002: dates.  getTime is in days since 1970-01-01 (the code's       *)
(* milliseconds divided by 86400000: only differences are compared); an    *)
(* unparseable string gives NaN.                                           *)
(***************************************************************************)
\* obs.date || obs.observationDate || ... || "" (the model's observations
\* carry a date in the date field only)
getDate(o) == OrElse(o.date, Str(""))

\* new Date(text).getTime()
DateGetTime(text) ==
    CASE text = "1970-01-01" -> [nan |-> FALSE, t |-> 0]
      [] text = "2025-10-16" -> [nan |-> FALSE, t |-> 20377]
      [] text = "2025-11-03" -> [nan |-> FALSE, t |-> 20395]
      [] text = "1969-07-20" -> [nan |-> FALSE, t |-> 0 - 165]
      [] OTHER -> [nan |-> TRUE, t |-> 0]

\* new Date(getDate(a) || "1970-01-01").getTime()
sortTime(o) == DateGetTime(String(OrElse(getDate(o), Str("1970-01-01"))))

\* Mutant: the slice starts at 1 and drops the newest HIGH observation.
criticalHigh_sliceFromOne(d) ==
    LET highs == RiskIs(d, "HIGH")
        timed == [j \in 1..Len(highs) |-> <<highs[j], sortTime(d[highs[j]])>>]
        sorted == StableSort(timed, "dateDesc")
    IN  Slice([j \in 1..Len(sorted) |-> sorted[j][1]], 1, HIGH_LIMIT)

\* data.filter(HIGH).sort(newest first).slice(0, 30)
criticalHigh(d) ==
    LET highs == RiskIs(d, "HIGH")
        timed == [j \in 1..Len(highs) |-> <<highs[j], sortTime(d[highs[j]])>>]
        sorted == StableSort(timed, "dateDesc")
    IN  Slice([j \in 1..Len(sorted) |-> sorted[j][1]], 0, HIGH_LIMIT)

\* The comparator of criticalHigh is a consistent ordering of the HIGH
\* observations of d: an unparseable date compares equal (NaN) to every date,
\* so with one among them all the other dates compare equal too.
ConsistentDates(d) ==
    LET highs == RiskIs(d, "HIGH")
    IN  (\E j \in 1..Len(highs) : sortTime(d[highs[j]]).nan) =>
            \A j, k \in 1..Len(highs) :
                (~sortTime(d[highs[j]]).nan /\ ~sortTime(d[highs[k]]).nan) =>
                    sortTime(d[highs[j]]).t = sortTime(d[highs[k]]).t

\* Mutant: the handler sorts data itself by date, in place.
dataAfterSampling_sortedInPlace(v, d) ==
    IF v = "part_002"
    THEN LET timed == [j \in 1..Len(d) |-> <<j, sortTime(d[j])>>]
             sorted == StableSort(timed, "dateDesc")
         IN  [j \in 1..Len(d) |-> d[sorted[j][1]]]
    ELSE d

\* The data list after the sampling.  filter returns a new array and sort
\* orders that array in place; slice and map return new arrays; push appends
\* to patternMap[key], trimmed and exampleObs; no statement assigns to data,
\* to an element of data or to a field of an observation.
dataAfterSampling(v, d) == d

(***************************************************************************)
(* part_002: the example set, critical + repetitive, as positions of data. *)
(***************************************************************************)
\* arr.forEach((obs) => { if (exampleObs.length < MAX_EXAMPLES) exampleObs.push(obs) })
pushWhileRoom(exampleObs, arr) ==
    ForEach("pushWhileRoom", arr, "", 1, Len(arr), exampleObs)

\* for (const cluster of repeatingClusters) { if (full) break; ... }
clusterExamples(exampleObs, clusters) ==
    ForEach("clusterExamples", clusters, "", 1, Len(clusters), exampleObs)

\* if (exampleObs.length < 10) { extras = data.filter(not HIGH).slice(0, 10); ... }
withExtras(exampleObs, d) ==
    IF Len(exampleObs) < SMALL_SET
    THEN pushWhileRoom(exampleObs, Slice(RiskIsNot(d, "HIGH"), 0, EXTRAS_LIMIT))
    ELSE exampleObs

\* exampleObs after step 1 (the HIGH risk incidents)
afterCriticalHigh(d) == pushWhileRoom(<<>>, criticalHigh(d))

\* exampleObs after step 2 (the repeating pattern examples)
afterClusters(d) == clusterExamples(afterCriticalHigh(d), repeatingClusters(d))

\* exampleObs after step 3 (the fallback)
exampleObsOf(d) == withExtras(afterClusters(d), d)

(***************************************************************************)
(* The observations the prompt lists, as positions of data: analyze.js     *)
(* puts the whole data list into the prompt as JSON.                       *)
(***************************************************************************)
promptObsOf(v, d) ==
    CASE v = "part_001" -> promptData(d)
      [] v = "part_002" -> exampleObsOf(d)
      [] OTHER -> Indices(d)

(***************************************************************************)
(* The line the prompt renders for one observation: `[${risk}] ${cat} at   *)
(* ${loc}` in formatExample of part_002 and in observationsText of         *)
(* part_001 (a template literal renders a number as String(n)).            *)
(***************************************************************************)
\* Mutant: the line shows the risk value as received.
formatExample_rawRisk(o) ==
    [risk |-> String(o.risk),
     category |-> String(OrElse(o.category, Str("Unknown"))),
     location |-> String(OrElse(o.location, Str("Unknown location")))]

formatExample(o) ==
    [risk |-> normRisk(o.risk),
     category |-> String(OrElse(o.category, Str("Unknown"))),
     location |-> String(OrElse(o.location, Str("Unknown location")))]

\* exampleObs.map(formatExample) / promptData.map(...); analyze.js renders no
\* line per observation.
promptLinesOf(v, d) ==
    IF v = "analyze" THEN <<>>
    ELSE LET listed == promptObsOf(v, d)
         IN  [j \in 1..Len(listed) |-> formatExample(d[listed[j]])]

(***************************************************************************)
(* The statistics object.  analyze.js reports no locationsAffected.        *)
(***************************************************************************)
\* Mutant: the statistics are computed over the observations of the prompt.
Statistics_ofSample(v, d) ==
    LET sample == [j \in 1..Len(promptObsOf(v, d)) |-> d[promptObsOf(v, d)[j]]]
    IN  [totalObservations |-> Len(sample),
         riskDistribution |-> riskCount(sample),
         topCategories |-> topCategories(v, sample),
         locationsAffected |->
            IF v = "analyze" THEN <<>> ELSE <<Cardinality(locations(sample))>>]

Statistics(v, d) ==
    [totalObservations |-> Len(d),
     riskDistribution |-> riskCount(d),
     topCategories |-> topCategories(v, d),
     locationsAffected |->
        IF v = "analyze" THEN <<>> ELSE <<Cardinality(locations(d))>>]

(***************************************************************************)
(* The percentage of HIGH risk observations:                               *)
(*     Math.round((totalHigh / totalObservations) * 100)                   *)
(* JavaScript numbers are IEEE 754 doubles.  A positive double is kept as  *)
(* its 53-bit significand m (a sequence of bits, the first one 1) and an   *)
(* exponent e, its value being m * 2^e; a quotient and a product are       *)
(* rounded to the nearest double, ties to the even significand.            *)
(***************************************************************************)
SignificandBits == 53

\* The bits plus one (the carry may lengthen the sequence by one bit).
RECURSIVE PlusOne(_)
PlusOne(bits) ==
    IF bits = <<>> THEN <<1>>
    ELSE IF bits[Len(bits)] = 0
         THEN [bits EXCEPT ![Len(bits)] = 1]
         ELSE Append(PlusOne(SubSeq(bits, 1, Len(bits) - 1)), 0)

\* The double of a significand that rounding may have lengthened to 54 bits
\* (then it is a 1 followed by zeros).
Normalized(bits, e) ==
    IF Len(bits) > SignificandBits
    THEN [m |-> SubSeq(bits, 1, SignificandBits), e |-> e + 1]
    ELSE [m |-> bits, e |-> e]

\* Long division: the remainder is doubled until the next quotient bit is 1;
\* z counts the doublings.
RECURSIVE LeadingZeros(_, _, _)
LeadingZeros(r, t, z) ==
    IF 2 * r < t THEN LeadingZeros(2 * r, t, z + 1) ELSE [r |-> r, z |-> z]

\* The next n quotient bits of r / t appended to bits, and the remainder left.
RECURSIVE QuotientBits(_, _, _, _)
QuotientBits(r, t, n, bits) ==
    IF n = 0 THEN [bits |-> bits, r |-> r]
    ELSE IF 2 * r >= t
         THEN QuotientBits(2 * r - t, t, n - 1, Append(bits, 1))
         ELSE QuotientBits(2 * r, t, n - 1, Append(bits, 0))

\* h / t for integers 0 < h <= t
Divide(h, t) ==
    LET start == LeadingZeros(h, t, 0)
        q == QuotientBits(start.r, t, SignificandBits, <<>>)
        up == \/ 2 * q.r > t
              \/ 2 * q.r = t /\ q.bits[SignificandBits] = 1
    IN  Normalized(IF up THEN PlusOne(q.bits) ELSE q.bits,
                   0 - (start.z + SignificandBits))

\* The bits of the integer m * k, for a small integer k: the bits of m are
\* multiplied from the last one to the first, i being the bit at hand, c the carry.
RECURSIVE ProductBits(_, _, _, _, _)
ProductBits(m, k, i, c, bits) ==
    IF i >= 1
    THEN ProductBits(m, k, i - 1, (m[i] * k + c) \div 2, <<(m[i] * k + c) % 2>> \o bits)
    ELSE IF c > 0
         THEN ProductBits(m, k, i, c \div 2, <<c % 2>> \o bits)
         ELSE bits

\* x * k for a double x and a small integer k
Times(x, k) ==
    LET product == ProductBits(x.m, k, Len(x.m), 0, <<>>)
        kept == SubSeq(product, 1, SignificandBits)
        dropped == SubSeq(product, SignificandBits + 1, Len(product))
        up == /\ dropped # <<>>
              /\ dropped[1] = 1
              /\ \/ \E j \in 2..Len(dropped) : dropped[j] = 1
                 \/ kept[SignificandBits] = 1
    IN  Normalized(IF up THEN PlusOne(kept) ELSE kept, x.e + Len(dropped))

\* The integer a sequence of bits stands for.
RECURSIVE BitsValue(_)
BitsValue(bits) ==
    IF bits = <<>> THEN 0
    ELSE 2 * BitsValue(SubSeq(bits, 1, Len(bits) - 1)) + bits[Len(bits)]

\* Math.round(x) for a double 0 < x < 2^31: the integer part, plus one when
\* the fraction is a half or more, which the first bit of the fraction says.
MathRound(x) ==
    LET k == SignificandBits + x.e
    IN  IF k < 0 THEN 0
        ELSE IF k >= SignificandBits THEN BitsValue(x.m)
        ELSE BitsValue(SubSeq(x.m, 1, k)) + x.m[k + 1]

\* totalObservations > 0 ? Math.round((totalHigh / totalObservations) * 100) : 0
\* (0 / n is 0, and Math.round(0) is 0)
pctHighOf(totalHigh, totalObservations) ==
    IF totalObservations > 0
    THEN IF totalHigh = 0 THEN 0
         ELSE MathRound(Times(Divide(totalHigh, totalObservations), 100))
    ELSE 0

(***************************************************************************)
(* The requests of the model.                                              *)
(***************************************************************************)
MaxLen == 3

MaxCount == 2

Variants == {"analyze", "part_001", "part_002"}

\* Observations of the short lists.
oHighFireA == Obs(Str("HIGH"), Str("Fire"), Str("A"), Str("2025-10-16"))
oLowFireA == Obs(Str("LOW"), Str("Fire"), Str("A"), Undefined)
oMediumSlipB == Obs(Str("medium"), Str("Slip"), Str("B"), Str("2025-11-03"))
oEmpty == Obs(Undefined, Undefined, Undefined, Undefined)
oCritical7 == Obs(Str("critical"), Str("7"), Str(""), Undefined)
oNumbers == Obs(Num("5"), Num("7"), Num("0"), Undefined)

ShortObs ==
    {oHighFireA, oLowFireA, oMediumSlipB, oEmpty, oCritical7, oNumbers, NullObs}

\* Every list of at most MaxLen of these observations.
ShortLists == UNION {[1..n -> ShortObs] : n \in 0..MaxLen}

\* Lists of observations whose category or location holds a "|".
oSlipTripDock == Obs(Str("low"), Str("Slip|Trip"), Str("Dock"), Undefined)
oSlipTripAtDock == Obs(Str("low"), Str("Slip"), Str("Trip|Dock"), Undefined)

PipeObs == {oSlipTripDock, oSlipTripAtDock, oLowFireA}

PipeLists == UNION {[1..n -> PipeObs] : n \in 1..MaxLen}

\* n copies of one observation.
Run(o, n) == [i \in 1..n |-> o]

\* Lists that differ in their categories only: each category of CategoryNames
\* occurs 0..MaxCount times, the categories in the order of the list.
CategoryNames == <<"PPE", "10", " Fire", "Lighting", "7", "Fire">>

RECURSIVE CategoryRuns(_, _)
CategoryRuns(counts, j) ==
    IF j > Len(CategoryNames) THEN <<>>
    ELSE Run(Obs(Undefined, Str(CategoryNames[j]), Undefined, Undefined), counts[j])
            \o CategoryRuns(counts, j + 1)

CategoryLists ==
    {CategoryRuns(counts, 1) : counts \in [1..Len(CategoryNames) -> 0..MaxCount]}

\* Long lists, around the limits of the samplers: a run of one observation,
\* optionally followed by three of another.
RunLengths == {29, 31, 61, 141}

LongObs == {oHighFireA, oLowFireA, oCritical7}

LongLists ==
    {Run(o1, n1) \o Run(o2, n2) :
        o1 \in LongObs, n1 \in RunLengths, o2 \in LongObs, n2 \in {0, 3}}

\* Lists of k groups of three observations of one (category, location) each.
GroupNames ==
    <<"c01", "c02", "c03", "c04", "c05", "c06", "c07", "c08", "c09", "c10", "c11",
      "c12", "c13", "c14", "c15", "c16", "c17", "c18", "c19", "c20", "c21">>

GroupCounts == {10, 11, 21}

Groups(risk, k) ==
    [i \in 1..(3 * k) |->
        Obs(Str(risk), Str(GroupNames[((i - 1) \div 3) + 1]), Str("A"), Undefined)]

GroupLists ==
    {Run(head, n) \o Groups(risk, k) :
        head \in {oHighFireA}, n \in {0, 29}, risk \in {"High", "low"}, k \in GroupCounts}

\* Lists of two runs around the repetition threshold: the three observations
\* at one (category, location) followed by one elsewhere, a smaller group
\* before a larger one, groups of equal size.
oLowFireB == Obs(Str("LOW"), Str("Fire"), Str("B"), Undefined)

ClusterLists ==
    {Run(o1, n1) \o Run(o2, n2) :
        o1 \in {oHighFireA, oLowFireB}, n1 \in {2, 3},
        o2 \in {oLowFireA, oLowFireB, oMediumSlipB}, n2 \in {1, 3, 4}}

\* Lists of t observations of which h are HIGH, for the percentage.
HighShares == {<<1, 8>>, <<5, 8>>, <<1, 16>>, <<23, 40>>}

PercentLists ==
    {Run(oHighFireA, share[1]) \o Run(oLowFireA, share[2] - share[1]) :
        share \in HighShares}

\* Lists of HIGH observations that differ in their dates: two days of 2025,
\* a day before 1970, no date, and a text that is not a date.
oHighSlipNov == Obs(Str("HIGH"), Str("Slip"), Str("B"), Str("2025-11-03"))
oHigh1969 == Obs(Str("HIGH"), Str("Fire"), Str("A"), Str("1969-07-20"))
oHighNoDate == Obs(Str("HIGH"), Str("Fire"), Str("A"), Undefined)
oHighBadDate == Obs(Str("HIGH"), Str("Fire"), Str("A"), Str("n/a"))

DateObs == {oHighFireA, oHighSlipNov, oHigh1969, oHighNoDate, oHighBadDate}

DateLists ==
    {d \in UNION {[1..n -> DateObs] : n \in 1..MaxLen} : ConsistentDates(d)}

DataLists ==
    ShortLists \cup CategoryLists \cup LongLists \cup GroupLists \cup ClusterLists
        \cup PercentLists \cup DateLists \cup PipeLists

\* event.body: missing, not JSON, the JSON text null, or a JSON object whose
\* data field is absent (or null), a value that is not a list, or a list.
Requests ==
    [httpMethod : {"GET", "OPTIONS"}, body : {"missing"}, dataKind : {"absent"},
     data : {<<>>}]
    \cup
    [httpMethod : {"POST"}, body : {"missing", "invalid", "null"},
     dataKind : {"absent"}, data : {<<>>}]
    \cup
    [httpMethod : {"POST"}, body : {"object"}, dataKind : {"absent", "notlist"},
     data : {<<>>}]
    \cup
    [httpMethod : {"POST"}, body : {"object"}, dataKind : {"list"}, data : DataLists]

\* What axios.post gives: a completion with text, a completion whose content
\* is empty, a choice without message, no choices, or a rejection (timeout,
\* transport error, HTTP error status).
Outcomes == {"completion", "emptyContent", "noMessage", "noChoices", "throws"}

(***************************************************************************)
(* State of one invocation of exports.handler.                             *)
(***************************************************************************)
VARIABLES
    variant,      \* which revision of the handler runs
    httpMethod,   \* event.httpMethod
    body,         \* event.body, by kind
    dataKind,     \* the kind of the parsed data field
    data,         \* the parsed data list
    apiKey,       \* whether process.env.PERPLEXITY_API_KEY is set
    pc,           \* the handler's position
    statistics,   \* <<>> until computed, then <<the statistics object>>
    prompted,     \* whether the prompt text has been built
    promptObs,    \* the positions of data the prompt lists, in order
    patterns,     \* part_002: the values of patternMap, as positions of data
    clusters,     \* part_002: repeatingClusters, as positions of data
    exampleSizes, \* part_002: exampleObs.length after step 1 and after step 2
    promptLines,  \* the lines rendered for the observations of the prompt
    pctHigh,      \* <<>> until computed, then <<the percentage of HIGH>>
    calls,        \* number of axios.post calls made
    outcome,      \* what the call gave, "none" before it
    responses     \* the responses returned, in order

vars ==
    <<variant, httpMethod, body, dataKind, data, apiKey, pc, statistics,
      prompted, promptObs, patterns, clusters, exampleSizes, promptLines,
      pctHigh, calls, outcome, responses>>

request == <<variant, httpMethod, body, dataKind, data, apiKey>>

\* What the handler derives for the prompt.
prompt ==
    <<prompted, promptObs, patterns, clusters, exampleSizes, promptLines, pctHigh>>

Init ==
    /\ variant \in Variants
    /\ apiKey \in BOOLEAN
    /\ \E req \in Requests :
          /\ httpMethod = req.httpMethod
          /\ body = req.body
          /\ dataKind = req.dataKind
          /\ data = req.data
    /\ pc = "start"
    /\ statistics = <<>>
    /\ prompted = FALSE
    /\ promptObs = <<>>
    /\ patterns = <<>>
    /\ clusters = <<>>
    /\ exampleSizes = <<>>
    /\ promptLines = <<>>
    /\ pctHigh = <<>>
    /\ calls = 0
    /\ outcome = "none"
    /\ responses = <<>>

\* return { statusCode, body: JSON.stringify({ error | analysis, statistics? }) }
Response(code, stats, analysis) ==
    [statusCode |-> code, statistics |-> stats, analysis |-> analysis]

Return(r) ==
    /\ responses' = Append(responses, r)
    /\ pc' = "done"

\* Mutant: an empty list passes the data validation.
requestStatus_emptyListPasses(v, m, b, k, d, key) ==
    IF v = "analyze"
    THEN CASE m = "OPTIONS" -> 200
           [] m # "POST" -> 405
           [] b = "missing" -> 400
           [] b = "invalid" -> 400
           [] b = "null" -> 500
           [] k # "list" -> 400
           [] OTHER -> 0
    ELSE CASE m # "POST" -> 405
           [] b \in {"invalid", "null"} -> 500
           [] ~key -> 500
           [] b = "missing" \/ k # "list" -> 400
           [] OTHER -> 0

\* The checks before the pipeline.  The status the request is answered with,
\* or 0 when the request passes them.
requestStatus(v, m, b, k, d, key) ==
    IF v = "analyze"
    THEN CASE m = "OPTIONS" -> 200
           [] m # "POST" -> 405
           [] b = "missing" -> 400
           [] b = "invalid" -> 400
           [] b = "null" -> 500
           [] k # "list" \/ Len(d) = 0 -> 400
           [] OTHER -> 0
    ELSE CASE m # "POST" -> 405
           [] b \in {"invalid", "null"} -> 500
           [] ~key -> 500
           [] b = "missing" \/ k # "list" \/ Len(d) = 0 -> 400
           [] OTHER -> 0

CheckRequest ==
    /\ pc = "start"
    /\ LET code == requestStatus(variant, httpMethod, body, dataKind, data, apiKey)
       IN  IF code = 0
           THEN /\ pc' = "statistics"
                /\ UNCHANGED responses
           ELSE Return(Response(code, <<>>, "none"))
    /\ UNCHANGED <<request, statistics, prompt, calls, outcome>>

ComputeStatistics ==
    /\ pc = "statistics"
    /\ IF statisticsThrows(variant, data)
       THEN /\ Return(Response(500, <<>>, "none"))
            /\ UNCHANGED statistics
       ELSE /\ statistics' = <<Statistics(variant, data)>>
            /\ pc' = IF variant = "analyze" THEN "apiKey" ELSE "prompt"
            /\ UNCHANGED responses
    /\ UNCHANGED <<request, prompt, calls, outcome>>

\* analyze.js looks the API key up after the statistics.
CheckApiKey ==
    /\ pc = "apiKey"
    /\ IF apiKey
       THEN /\ pc' = "prompt"
            /\ UNCHANGED responses
       ELSE Return(Response(500, <<>>, "none"))
    /\ UNCHANGED <<request, statistics, prompt, calls, outcome>>

BuildPrompt ==
    /\ pc = "prompt"
    /\ promptObs' = promptObsOf(variant, data)
    /\ IF variant = "part_002"
       THEN /\ patterns' = ObjectValues(patternMap(data))
            /\ clusters' = repeatingClusters(data)
            /\ exampleSizes' =
                  <<Len(afterCriticalHigh(data)), Len(afterClusters(data))>>
       ELSE UNCHANGED <<patterns, clusters, exampleSizes>>
    /\ promptLines' = promptLinesOf(variant, data)
    /\ pctHigh' =
          IF variant = "analyze" THEN <<>>
          ELSE <<pctHighOf(Get(statistics[1].riskDistribution, "HIGH"),
                           statistics[1].totalObservations)>>
    /\ prompted' = TRUE
    /\ data' = dataAfterSampling(variant, data)
    /\ pc' = "call"
    /\ UNCHANGED <<variant, httpMethod, body, dataKind, apiKey>>
    /\ UNCHANGED <<statistics, calls, outcome, responses>>

\* The response after await axios.post(...), by what the call gave.
callResponse(v, o, stats) ==
    IF v = "analyze"
    THEN CASE o = "completion" -> Response(200, stats, "text")
           [] o = "throws" -> Response(500, <<>>, "none")
           [] OTHER -> Response(502, stats, "none")
    ELSE CASE o = "completion" -> Response(200, stats, "text")
           [] o = "emptyContent" -> Response(200, stats, "empty")
           [] OTHER -> Response(500, <<>>, "none")

CallService ==
    /\ pc = "call"
    /\ \E o \in Outcomes :
          /\ outcome' = o
          /\ Return(callResponse(variant, o, statistics))
    /\ calls' = calls + 1
    /\ UNCHANGED <<request, statistics, prompt>>

Next ==
    \/ CheckRequest
    \/ ComputeStatistics
    \/ CheckApiKey
    \/ BuildPrompt
    \/ CallService

Spec == Init /\ [][Next]_vars

(***************************************************************************)
(* Vocabulary of the properties.  The levels and counts below are stated   *)
(* on the request's data directly, not through the handler's operators.    *)
(***************************************************************************)
Range(seq) == {seq[i] : i \in 1..Len(seq)}

RECURSIVE SumOfValues(_)
SumOfValues(obj) ==
    IF obj = <<>> THEN 0 ELSE Head(obj)[2] + SumOfValues(Tail(obj))

\* The canonical level a risk value stands for: absent (or falsy) is MEDIUM,
\* HIGH / MEDIUM / LOW in any letter case is that level, anything else is
\* not a canonical level.
CanonicalLevel(o) ==
    IF ~Truthy(o.risk) THEN "MEDIUM"
    ELSE IF o.risk.tag = "string" /\ o.risk.s \in {"HIGH", "High", "high"} THEN "HIGH"
    ELSE IF o.risk.tag = "string" /\ o.risk.s \in {"MEDIUM", "Medium", "medium"}
         THEN "MEDIUM"
    ELSE IF o.risk.tag = "string" /\ o.risk.s \in {"LOW", "Low", "low"} THEN "LOW"
    ELSE "unrecognized"

AtLevel(level) == {i \in 1..Len(data) : CanonicalLevel(data[i]) = level}

HighSet == AtLevel("HIGH")

Trimming == variant \in {"part_001", "part_002"}

Cap == IF variant = "part_001" THEN MAX_OBS_FOR_PROMPT ELSE MAX_EXAMPLES

Sampled == Range(promptObs)

StatisticsMade == statistics # <<>>

CanonicalSum ==
    Get(statistics[1].riskDistribution, "HIGH")
        + Get(statistics[1].riskDistribution, "MEDIUM")
        + Get(statistics[1].riskDistribution, "LOW")

(***************************************************************************)
(* C1                                                                      *)
(***************************************************************************)
\* C1 as stated: for every non-empty observation list, whatever the risk
\* values are, riskDistribution.HIGH + MEDIUM + LOW equals totalObservations
\* (an unrecognized risk value being counted as MEDIUM).
C1_CanonicalBucketsSumToTotal ==
    StatisticsMade => CanonicalSum = statistics[1].totalObservations

(***************************************************************************)
(* C2                                                                      *)
(***************************************************************************)
\* C2 as stated: in the revisions that trim, the number of observations the
\* prompt lists never exceeds the cap (140 in part_001, 60 in part_002), on
\* every path, the fall-back included.
C2_PromptWithinCap ==
    (prompted /\ Trimming) => Len(promptObs) <= Cap

(***************************************************************************)
(* C3                                                                      *)
(***************************************************************************)
\* C3 as stated: the sample is a subset of the input without duplicates:
\* every element is a position of the input and no position occurs twice.
C3_SampleHasNoDuplicates ==
    (prompted /\ Trimming) =>
        /\ Sampled \subseteq 1..Len(data)
        /\ \A p, q \in 1..Len(promptObs) :
              p # q => promptObs[p] # promptObs[q]

(***************************************************************************)
(* C4                                                                      *)
(***************************************************************************)
\* C4 as stated: while the sample holds fewer observations than the cap, no
\* HIGH-risk observation is missing from it, and no MEDIUM/LOW observation is
\* in the sample while a HIGH-risk one is left out, for any number of
\* HIGH-risk observations.
C4_HighKeptWhileRoom ==
    (prompted /\ Trimming) =>
        /\ Len(promptObs) < Cap => HighSet \subseteq Sampled
        /\ ~(HighSet \subseteq Sampled) => Sampled \subseteq HighSet

\* C4 amended: part_001 keeps every HIGH-risk observation while the cap is not
\* reached and lists no other observation while a HIGH-risk one is left out;
\* part_002 keeps every HIGH-risk observation when there are at most 30 of
\* them, and at least 30 of them when there are more.
C4_HighKeptUpToLimit ==
    (prompted /\ Trimming) =>
        IF variant = "part_001"
        THEN /\ Len(promptObs) < Cap => HighSet \subseteq Sampled
             /\ ~(HighSet \subseteq Sampled) => Sampled \subseteq HighSet
        ELSE /\ Cardinality(HighSet) <= HIGH_LIMIT => HighSet \subseteq Sampled
             /\ Cardinality(HighSet \cap Sampled)
                   >= Min(Cardinality(HighSet), HIGH_LIMIT)

\* part_002 has sampled a list with more than 30 HIGH-risk observations and
\* the sample is below the cap.
C4_Witness ==
    /\ prompted
    /\ variant = "part_002"
    /\ Cardinality(HighSet) > HIGH_LIMIT
    /\ Len(promptObs) < Cap

(***************************************************************************)
(* C5                                                                      *)
(***************************************************************************)
CategoryCount(k) ==
    Cardinality({i \in 1..Len(data) : categoryKey(variant, data[i]) = k})

DistinctCategories == {categoryKey(variant, data[i]) : i \in 1..Len(data)}

DistinctLocations ==
    {data[i].location : i \in {j \in 1..Len(data) : Truthy(data[j].location)}}

\* C5: the statistics reflect all observations, never the trimmed subset:
\* totalObservations is the length of the input, the risk buckets sum to it
\* and each canonical bucket counts the input observations of its level,
\* every listed category carries its count over the whole input, and
\* locationsAffected is the number of distinct locations of the whole input.
C5_StatisticsOverAllObservations ==
    StatisticsMade =>
        /\ statistics[1].totalObservations = Len(data)
        /\ SumOfValues(statistics[1].riskDistribution) = Len(data)
        /\ \A level \in CanonicalRisks :
              Get(statistics[1].riskDistribution, level)
                  = Cardinality(AtLevel(level))
        /\ \A j \in 1..Len(statistics[1].topCategories) :
              statistics[1].topCategories[j][2]
                  = CategoryCount(statistics[1].topCategories[j][1])
        /\ Len(statistics[1].topCategories)
              = Min(TOP_CATEGORIES, Cardinality(DistinctCategories))
        /\ variant # "analyze" =>
              statistics[1].locationsAffected
                  = <<Cardinality(DistinctLocations)>>

\* A trimming revision has listed fewer observations in the prompt than the
\* input holds, the input being longer than the cap.
C5_Witness ==
    /\ StatisticsMade
    /\ prompted
    /\ Trimming
    /\ Len(data) > Cap
    /\ Len(promptObs) < Len(data)
    /\ statistics[1].totalObservations > Len(promptObs)

(***************************************************************************)
(* C6                                                                      *)
(***************************************************************************)
CallFailed == outcome \in {"throws", "emptyContent", "noMessage", "noChoices"}

\* C6 as stated: when the text-generation call fails (it throws, or returns
\* an empty or choice-less completion), the response returned to the caller
\* still carries the statistics computed for the request.
C6_FailedCallStillCarriesStatistics ==
    (pc = "done" /\ CallFailed) =>
        /\ StatisticsMade
        /\ responses[Len(responses)].statistics = statistics

(***************************************************************************)
(* C7                                                                      *)
(***************************************************************************)
\* A POST request whose data field is absent, not a list, or an empty list.
BadData ==
    /\ httpMethod = "POST"
    /\ body \in {"missing", "object"}
    /\ dataKind # "list" \/ data = <<>>

\* C7 as stated: such a request is answered with status 400, without
\* statistics, prompt or call, whether or not the API key is set.
C7_BadDataGets400 ==
    BadData =>
        /\ ~StatisticsMade /\ ~prompted /\ calls = 0
        /\ pc = "done" => responses = <<Response(400, <<>>, "none")>>

\* C7 amended: such a request is answered with one error response, without
\* statistics, prompt or call; the status is 400, except that part_001 and
\* part_002 look the API key up first and answer 500 when it is not set.
C7_BadDataRejectedBeforePipeline ==
    BadData =>
        /\ ~StatisticsMade /\ ~prompted /\ calls = 0
        /\ pc \in {"start", "done"}
        /\ pc = "done" =>
              responses =
                <<Response(IF variant # "analyze" /\ ~apiKey THEN 500 ELSE 400,
                           <<>>, "none")>>

\* part_002 has answered a request with an empty list and no API key.
C7_Witness ==
    /\ BadData
    /\ pc = "done"
    /\ dataKind = "list"
    /\ variant = "part_002"
    /\ ~apiKey

(***************************************************************************)
(* C8                                                                      *)
(***************************************************************************)
\* C8 as stated: for every non-empty list, whatever its elements and their
\* fields are (a null element included), the run reaches the external call:
\* with the API key set, no such request ends before the call.
C8_MalformedDataReachesCall ==
    (/\ pc = "done"
     /\ httpMethod = "POST" /\ body = "object" /\ dataKind = "list"
     /\ data # <<>> /\ apiKey) => calls = 1

(***************************************************************************)
(* C9                                                                      *)
(***************************************************************************)
\* The position of the first observation counted under the category k.
FirstSeen(k) ==
    CHOOSE i \in 1..Len(data) :
        /\ categoryKey(variant, data[i]) = k
        /\ \A j \in 1..(i - 1) : categoryKey(variant, data[j]) # k

\* C9 as stated: topCategories has at most 5 entries, is sorted by count
\* descending, and lists categories of equal count in the order in which
\* they were first encountered in the input.
C9_TopCategoriesOrder ==
    StatisticsMade =>
        LET top == statistics[1].topCategories
        IN  /\ Len(top) <= TOP_CATEGORIES
            /\ \A p, q \in 1..Len(top) :
                  p < q =>
                    /\ top[p][2] >= top[q][2]
                    /\ top[p][2] = top[q][2] =>
                          FirstSeen(top[p][1]) < FirstSeen(top[q][1])

(***************************************************************************)
(* C10                                                                     *)
(***************************************************************************)
Listed == {statistics[1].topCategories[j][1] :
              j \in 1..Len(statistics[1].topCategories)}

\* C10 as stated: every count listed in topCategories is <= the count of any
\* category that is not listed.
C10_ListedAtMostUnlisted ==
    StatisticsMade =>
        \A j \in 1..Len(statistics[1].topCategories) :
            \A k \in DistinctCategories \ Listed :
                statistics[1].topCategories[j][2] <= CategoryCount(k)

\* C10 amended: every count listed in topCategories is >= the count of any
\* category that is not listed.
C10_ListedAtLeastUnlisted ==
    StatisticsMade =>
        \A j \in 1..Len(statistics[1].topCategories) :
            \A k \in DistinctCategories \ Listed :
                statistics[1].topCategories[j][2] >= CategoryCount(k)

\* More than five categories were counted, and a listed one occurs more often
\* than one that is not listed.
C10_Witness ==
    /\ StatisticsMade
    /\ DistinctCategories \ Listed # {}
    /\ \E j \in 1..Len(statistics[1].topCategories) :
          \E k \in DistinctCategories \ Listed :
              statistics[1].topCategories[j][2] > CategoryCount(k)

(***************************************************************************)
(* C11                                                                     *)
(***************************************************************************)
\* The location string of an observation after normalisation: the default
\* "Unknown location" for a missing or empty location.
NormalizedLocation(o) ==
    IF Truthy(o.location) THEN String(o.location) ELSE "Unknown location"

\* C11 as stated: locationsAffected is the number of distinct location
\* strings of the input after normalisation, so an input in which some
\* observation has no location counts the default as one distinct location.
C11_LocationsCountDefault ==
    (StatisticsMade /\ variant # "analyze") =>
        statistics[1].locationsAffected
            = <<Cardinality({NormalizedLocation(data[i]) : i \in 1..Len(data)})>>

(***************************************************************************)
(* C12                                                                     *)
(***************************************************************************)
\* The category string of an observation after the default is applied.
NormalizedCategory(o) ==
    IF Truthy(o.category) THEN String(o.category) ELSE "Unknown"

\* The observations at i and j are in one group of patternMap.
SameCluster(i, j) ==
    \E g \in 1..Len(patterns) : i \in Range(patterns[g]) /\ j \in Range(patterns[g])

\* C12 as stated: two observations are placed in the same cluster if and only
\* if their category strings are equal and their location strings are equal
\* (after the defaults), whatever the strings hold, a "|" included.
C12_SameClusterIffSamePair ==
    (prompted /\ variant = "part_002") =>
        \A i, j \in 1..Len(data) :
            SameCluster(i, j) <=>
                /\ NormalizedCategory(data[i]) = NormalizedCategory(data[j])
                /\ NormalizedLocation(data[i]) = NormalizedLocation(data[j])

(***************************************************************************)
(* C13                                                                     *)
(***************************************************************************)
\* The groups the clusterer formed that have 3 or more members.
QualifyingGroups ==
    {patterns[g] : g \in {h \in 1..Len(patterns) : Len(patterns[h]) >= 3}}

C13_WitnessExample ==
    /\ prompted
    /\ variant = "part_002"
    /\ Len(data) = 4
    /\ patterns = <<(<<1, 2, 3>>), (<<4>>)>>
    /\ clusters = <<(<<1, 2, 3>>)>>

(***************************************************************************)
(* C14                                                                     *)
(***************************************************************************)
\* The upper-case form of the risk strings of the requests.
UpperCased(x) ==
    IF x \in {"HIGH", "High", "high"} THEN "HIGH"
    ELSE IF x \in {"MEDIUM", "medium"} THEN "MEDIUM"
    ELSE IF x \in {"LOW", "low"} THEN "LOW"
    ELSE IF x = "critical" THEN "CRITICAL"
    ELSE x

\* The canonical risk of an observation: its risk value upper-cased, MEDIUM
\* when the risk is absent.
NormalizedRisk(o) ==
    IF Truthy(o.risk) THEN UpperCased(String(o.risk)) ELSE "MEDIUM"

WithRisk(r) == {i \in 1..Len(data) : NormalizedRisk(data[i]) = r}

WithCategory(c) == {i \in 1..Len(data) : NormalizedCategory(data[i]) = c}

\* The key made of the normalised category and location of an observation.
NormalizedKey(o) == NormalizedCategory(o) \o "|" \o NormalizedLocation(o)

C14_WitnessEmpty ==
    /\ prompted
    /\ Trimming
    /\ data = <<oEmpty>>
    /\ Len(promptLines) = 1

(***************************************************************************)
(* C15                                                                     *)
(***************************************************************************)
\* round(count / total * 100), a half rounded up, in exact arithmetic.
RoundedPercent(count, total) ==
    IF total = 0 THEN 0 ELSE (200 * count + total) \div (2 * total)

\* C15 as stated: the percentage rendered for HIGH equals
\* round(count / total * 100) with a half rounded up (0 when total is 0),
\* count and total being those of the full input; it is an integer in 0..100.
C15_PercentIsRoundedHalfUp ==
    (prompted /\ Trimming) =>
        /\ pctHigh = <<RoundedPercent(Cardinality(HighSet), Len(data))>>
        /\ pctHigh[1] \in 0..100

Chronology == <<"1969-07-20", "2025-10-16", "2025-11-03">>

HasParseableDate(o) == o.date.tag = "string" /\ o.date.s \in Range(Chronology)

\* The place of an observation's parseable date in the chronology.
DateRank(o) == CHOOSE n \in 1..Len(Chronology) : Chronology[n] = o.date.s

\* The observations selected in step 1, in the order of the sample.
SelectedHigh == SubSeq(promptObs, 1, exampleSizes[1])

\* C17 as stated: the HIGH-risk observations selected in step 1 are ordered
\* newest date first; every one whose date is missing or unparseable comes
\* after every one whose date is parseable, dates before 1970-01-01 included;
\* observations with equal dates keep their original relative order.
C17_NewestFirstUndatedLast ==
    (prompted /\ variant = "part_002") =>
        \A p, q \in 1..Len(SelectedHigh) :
            p < q =>
                LET a == data[SelectedHigh[p]]
                    b == data[SelectedHigh[q]]
                IN  /\ HasParseableDate(b) => HasParseableDate(a)
                    /\ (HasParseableDate(a) /\ HasParseableDate(b)) =>
                          DateRank(a) >= DateRank(b)
                    /\ (\/ ~HasParseableDate(a) /\ ~HasParseableDate(b)
                        \/ /\ HasParseableDate(a) /\ HasParseableDate(b)
                           /\ DateRank(a) = DateRank(b)) =>
                          SelectedHigh[p] < SelectedHigh[q]

(***************************************************************************)
(* C18                                                                     *)
(***************************************************************************)
\* The first min(3, size) members of each of the first k recurring clusters,
\* cluster after cluster.
RECURSIVE Representatives(_)
Representatives(k) ==
    IF k = 0 THEN <<>>
    ELSE Representatives(k - 1) \o SubSeq(clusters[k], 1, Min(3, Len(clusters[k])))

\* The observations step 2 appended to the sample.
FromClusters == SubSeq(promptObs, exampleSizes[1] + 1, exampleSizes[2])

\* C18: step 2 visits the recurring clusters in cluster order and takes from
\* each at most 3 members, its first members in input order; it stops as
\* soon as the sample reaches the cap.  So what step 2 appends is the
\* sequence of the clusters' first members cut where the cap is reached, and
\* a later cluster contributes only after every earlier one has contributed
\* min(3, its size) members.
C18_ClusterRepresentatives ==
    (prompted /\ variant = "part_002") =>
        /\ \A c \in 1..Len(clusters) : \A m, n \in 1..Len(clusters[c]) :
              m < n => clusters[c][m] < clusters[c][n]
        /\ exampleSizes[2] <= MAX_EXAMPLES
        /\ FromClusters =
              SubSeq(Representatives(Len(clusters)), 1,
                     Min(Len(Representatives(Len(clusters))),
                         MAX_EXAMPLES - exampleSizes[1]))

\* Step 2 has stopped at the cap inside a cluster: earlier clusters gave three
\* members each, one of them out of more than three, and members of the
\* clusters were left out.
C18_Witness ==
    /\ prompted
    /\ variant = "part_002"
    /\ exampleSizes[1] < MAX_EXAMPLES
    /\ exampleSizes[2] = MAX_EXAMPLES
    /\ Len(FromClusters) < Len(Representatives(Len(clusters)))
    /\ Len(FromClusters) % 3 # 0
    /\ \E c \in 1..Len(clusters) : Len(clusters[c]) > 3

(***************************************************************************)
(* C19                                                                     *)
(***************************************************************************)
\* The observations step 3 appended to the sample.
Backfill == SubSeq(promptObs, exampleSizes[2] + 1, Len(promptObs))

\* C19 as stated: the backfill step runs only when the sample holds fewer
\* than 10 observations after steps 1 and 2 and the cap is not reached; it
\* appends observations in original input order, and every observation it
\* appends has canonical risk MEDIUM or LOW, never any other value.
C19_BackfillMediumLowOnly ==
    (prompted /\ variant = "part_002") =>
        /\ Backfill # <<>> =>
              exampleSizes[2] < 10 /\ exampleSizes[2] < MAX_EXAMPLES
        /\ \A p, q \in 1..Len(Backfill) : p < q => Backfill[p] < Backfill[q]
        /\ \A p \in 1..Len(Backfill) :
              CanonicalLevel(data[Backfill[p]]) \in {"MEDIUM", "LOW"}

(***************************************************************************)
(* C20                                                                     *)
(***************************************************************************)
\* The keys of the returned riskDistribution.
Buckets ==
    {statistics[1].riskDistribution[b][1] :
        b \in 1..Len(statistics[1].riskDistribution)}

\* C20: for every non-empty input, the values of all buckets of the returned
\* riskDistribution (HIGH, MEDIUM and LOW, always present even when zero,
\* plus any further key the aggregation created, each key once) sum to
\* totalObservations, and every bucket value is a non-negative integer.
C20_AllBucketsSumToTotal ==
    StatisticsMade =>
        /\ CanonicalRisks \subseteq Buckets
        /\ Cardinality(Buckets) = Len(statistics[1].riskDistribution)
        /\ \A b \in 1..Len(statistics[1].riskDistribution) :
              statistics[1].riskDistribution[b][2] \in Nat
        /\ SumOfValues(statistics[1].riskDistribution)
              = statistics[1].totalObservations
        /\ statistics[1].totalObservations > 0

\* The statistics hold a bucket the aggregation created next to the three
\* canonical ones, one of which is zero.
C20_Witness ==
    /\ StatisticsMade
    /\ Buckets \ CanonicalRisks # {}
    /\ \E level \in CanonicalRisks :
          Get(statistics[1].riskDistribution, level) = 0
    /\ \E level \in CanonicalRisks :
          Get(statistics[1].riskDistribution, level) > 0

(***************************************************************************)
(* C21                                                                     *)
(***************************************************************************)
\* The request passes the method check, the data validation and the API-key
\* check.
ChecksPassed ==
    /\ httpMethod = "POST"
    /\ body = "object"
    /\ dataKind = "list"
    /\ data # <<>>
    /\ apiKey

\* C21 as stated: in every handler variant an invocation ends with exactly
\* one response (none before it ends, no unhandled rejection); the
\* text-generation service is called at most once, and only after the method
\* check, the data validation and the API-key check have passed; a request
\* that fails one of them gets an error response (405, 400 or 500) with no
\* call made; status 200 is returned only after a call that returned a
\* non-empty completion.
C21_OneResponseCallAfterChecks ==
    /\ Len(responses) = IF pc = "done" THEN 1 ELSE 0
    /\ calls <= 1
    /\ calls = 1 => ChecksPassed
    /\ (pc = "done" /\ ~ChecksPassed) =>
          /\ responses[1].statusCode \in {405, 400, 500}
          /\ calls = 0
    /\ (pc = "done" /\ responses[1].statusCode = 200) =>
          /\ calls = 1
          /\ outcome = "completion"

====
